---- MODULE Spec2Model ----
(***************************************************************************)
(* The puzzle engine of the shelf-matching game: the Game component        *)
(* (src/components/Game.tsx, lines 1-269) mounted by App (src/App.tsx).    *)
(*                                                                         *)
(* One action is one browser task: an item click or a timer callback,      *)
(* followed by the render it causes and by the effects whose dependencies  *)
(* changed in that render.  The effects run in the order the component     *)
(* declares them: Timer, match, win.  A call of onGameOver reaches         *)
(* App.handleGameOver, which leaves GameState.PLAYING, and App renders     *)
(* Game only while PLAYING, so the Game is unmounted after the effects of  *)
(* that render.                                                            *)
(***************************************************************************)
EXTENDS Integers, Sequences, FiniteSets, TLC

\* ---------------------------------------------------------------- bounds
\* The shuffles of generateLevel (Array.sort with a random comparator) are
\* drawn from the permutations i |-> stride * i + shift (mod n).
MaxStride == 5
MaxShift == 1

\* ------------------------------------------------------------- constants
MAX_TRAY_SIZE == 7

NoType == "null"

\* ---------------------------------------------------------------- helpers
Min(S) == CHOOSE x \in S : \A y \in S : x <= y

Max(S) == CHOOSE x \in S : \A y \in S : x >= y

RECURSIVE GCD(_, _)
GCD(a, b) == IF b = 0 THEN a ELSE GCD(b, a % b)

\* Level configurations handed to Game as its levelConfig prop.
Configs ==
  { [levelNumber |-> 1, timeLimitSeconds |-> 2, threeStarThreshold |-> 2,
     twoStarThreshold |-> 1, itemTypes |-> <<"apple">>,
     shelfCount |-> 1, slotsPerShelf |-> 1, layersPerSlot |-> 3, totalSets |-> 1],
    [levelNumber |-> 2, timeLimitSeconds |-> 2, threeStarThreshold |-> 2,
     twoStarThreshold |-> 1, itemTypes |-> <<"apple", "banana">>,
     shelfCount |-> 2, slotsPerShelf |-> 2, layersPerSlot |-> 2, totalSets |-> 2],
    [levelNumber |-> 3, timeLimitSeconds |-> 1, threeStarThreshold |-> 1,
     twoStarThreshold |-> 1, itemTypes |-> <<"apple", "banana", "cherry", "milk">>,
     shelfCount |-> 1, slotsPerShelf |-> 2, layersPerSlot |-> 6, totalSets |-> 4],
    [levelNumber |-> 4, timeLimitSeconds |-> 1, threeStarThreshold |-> 1,
     twoStarThreshold |-> 1, itemTypes |-> <<"apple", "banana">>,
     shelfCount |-> 1, slotsPerShelf |-> 2, layersPerSlot |-> 2, totalSets |-> 2] }

\* ----------------------------------------------------------- getLevelConfig
MAX_LEVELS == 20

\* const types = [...] of getLevelConfig.
types ==
  << "apple", "banana", "cherry", "milk", "cookie", "soda",
     "pizza", "burger", "icecream", "gift", "candy", "diamond" >>

\* Math.ceil(a / b) for positive integers.
CeilDiv(a, b) == (a + b - 1) \div b

\* Math.floor(capacity * fillRate) with fillRate = 0.7 + k * 0.025 evaluated
\* in IEEE-754 doubles, k = Math.min(level, 10).  The doubles agree with the
\* exact value floor(capacity * (700 + 25 k) / 1000) except where the sum
\* rounds to 0.7999999999999999, 0.8999999999999999 or 0.9249999999999999
\* and the exact product is an integer: 75 * 0.8 (level 4), 240 * 0.9
\* (level 8) and 240 * 0.925 (level 9) come out one lower.
TargetTotalItems(capacity, k) ==
  LET exact == (capacity * (700 + 25 * k)) \div 1000
      low   == <<capacity, k>> \in { <<75, 4>>, <<240, 8>>, <<240, 9>> }
  IN  IF low THEN exact - 1 ELSE exact

\* getLevelConfig of App.tsx.  Math.floor(level * 0.8) = floor(4 level / 5),
\* Math.ceil(level / 1.5) = ceil(2 level / 3), Math.floor(level / 2.5) =
\* floor(2 level / 5).  timeLeft is an integer, so timeLeft >= timeLimit * 0.6
\* is timeLeft >= ceil(6 timeLimit / 10): the thresholds are kept as these
\* least integers.
getLevelConfig(level) ==
  LET typeCount == Min({Len(types), 3 + ((4 * level) \div 5)})
      shelfCount == Min({8, 2 + CeilDiv(2 * level, 3)})
      slotsPerShelf == Min({6, 3 + (level \div 2)})
      layersPerSlot == Min({5, 2 + ((2 * level) \div 5)})
      capacity == shelfCount * slotsPerShelf * layersPerSlot
      targetTotalItems == TargetTotalItems(capacity, Min({level, 10}))
      sets == Max({5 + level * 2, targetTotalItems \div 3})
      timeLimit == 60 + (sets * 4)
  IN  [levelNumber |-> level, timeLimitSeconds |-> timeLimit,
       threeStarThreshold |-> CeilDiv(timeLimit * 6, 10),
       twoStarThreshold |-> CeilDiv(timeLimit * 3, 10),
       itemTypes |-> SubSeq(types, 1, typeCount),
       shelfCount |-> shelfCount, slotsPerShelf |-> slotsPerShelf,
       layersPerSlot |-> layersPerSlot, totalSets |-> sets]

\* The older getLevelConfig (src/unnamed/part_004).
getLevelConfigOld(level) ==
  LET typeCount == Min({Len(types), 3 + (level \div 2)})
      sets == 3 + level
      timeLimit == 60 + (level * 10)
  IN  [levelNumber |-> level, timeLimitSeconds |-> timeLimit,
       threeStarThreshold |-> CeilDiv(timeLimit * 5, 10),
       twoStarThreshold |-> CeilDiv(timeLimit * 25, 100),
       itemTypes |-> SubSeq(types, 1, typeCount),
       shelfCount |-> Min({6, 2 + (level \div 3)}),
       slotsPerShelf |-> Min({5, 3 + (level \div 4)}),
       layersPerSlot |-> 2 + (level \div 5), totalSets |-> sets]

\* The configurations of the levels of the map.
LevelConfigs == { getLevelConfig(level) : level \in 1..MAX_LEVELS }

\* ------------------------------------------------------------ generateLevel
\* The outcomes of one Array.sort(() => Math.random() - 0.5) on n elements:
\* result[i] = input[p[i]] for a permutation p of 1..n.
Shuffles(n) ==
  IF n = 0 THEN { <<>> }
  ELSE { [i \in 1..n |-> ((stride * (i - 1) + shift) % n) + 1] :
           stride \in { s \in 1..MaxStride : s <= n /\ GCD(s, n) = 1 },
           shift \in { k \in 0..MaxShift : k < n } }

\* The outcomes of the totalSets draws
\* itemTypes[Math.floor(Math.random() * itemTypes.length)].
TypeDraws(cfg) ==
  { [i \in 1..cfg.totalSets |-> ((step * (i - 1) + first) % Len(cfg.itemTypes)) + 1] :
      step \in 0..1, first \in { k \in 0..MaxShift : k < Len(cfg.itemTypes) } }

\* typePool with two entries per draw.
TypePoolPairs(cfg, draws) ==
  [k \in 1..(2 * cfg.totalSets) |-> cfg.itemTypes[draws[((k - 1) \div 2) + 1]]]

\* typePool before the shuffle: three entries per draw.
TypePool(cfg, draws) ==
  [k \in 1..(3 * cfg.totalSets) |-> cfg.itemTypes[draws[((k - 1) \div 3) + 1]]]

\* positions with the slot loop's index taken for the layer.
PositionsSlotForLayer(cfg) ==
  [k \in 1..(cfg.shelfCount * cfg.slotsPerShelf * cfg.layersPerSlot) |->
     [shelf |-> (k - 1) \div (cfg.slotsPerShelf * cfg.layersPerSlot),
      slot  |-> ((k - 1) \div cfg.layersPerSlot) % cfg.slotsPerShelf,
      layer |-> ((k - 1) \div cfg.layersPerSlot) % cfg.slotsPerShelf]]

\* positions: every (shelf, slot, layer) of the grid, in the loops' order.
Positions(cfg) ==
  [k \in 1..(cfg.shelfCount * cfg.slotsPerShelf * cfg.layersPerSlot) |->
     [shelf |-> (k - 1) \div (cfg.slotsPerShelf * cfg.layersPerSlot),
      slot  |-> ((k - 1) \div cfg.layersPerSlot) % cfg.slotsPerShelf,
      layer |-> (k - 1) % cfg.layersPerSlot]]

Permuted(seq, p) == [i \in 1..Len(seq) |-> seq[p[i]]]

\* Array.prototype.slice(0, n)
Slice(seq, n) == SubSeq(seq, 1, IF n < Len(seq) THEN n ELSE Len(seq))

\* newItems of generateLevel for one outcome of its random choices.
GenerateLevel(cfg, draws, poolPerm, posPerm) ==
  LET typePool == Permuted(TypePool(cfg, draws), poolPerm)
      usedPositions == Slice(Permuted(Positions(cfg), posPerm), Len(typePool))
  IN  { [id |-> index - 1,
         type |-> typePool[index],
         shelfIndex |-> usedPositions[index].shelf,
         slotIndex |-> usedPositions[index].slot,
         layer |-> usedPositions[index].layer,
         isMatched |-> FALSE] : index \in 1..Len(usedPositions) }

\* ------------------------------------------------------------------ state
VARIABLES
  gameState,          \* App: GameState
  levelConfig,        \* App: levelConfig, the prop of Game
  items,              \* Game: items on the shelves
  tray,               \* Game: the tray, in insertion order
  timeLeft,           \* Game: remaining seconds
  isProcessingMatch,  \* Game: a matched triplet is pending removal
  matchedType,        \* Game: the type being resolved, or NoType
  isInitialized,      \* Game: the grace window is over
  initTimeout,        \* the setTimeout of generateLevel is pending
  timer,              \* the setInterval of the Timer effect is armed
  matchTimeouts,      \* the pending match-resolution timeouts: their foundMatchedType
  progress,           \* App: progress (unlockedLevel, stars, hearts)
  calls,              \* history: the onGameOver calls of this attempt
  lastOp              \* history: the last task handled

vars == <<gameState, levelConfig, items, tray, timeLeft, isProcessingMatch,
          matchedType, isInitialized, initTimeout, timer, matchTimeouts,
          progress, calls, lastOp>>

\* ---------------------------------------------------------------- progress
\* App: currentLevel.  levelConfig is getLevelConfig(currentLevel) (useMemo).
currentLevel == levelConfig.levelNumber

\* prev.stars[level] || 0
StarsOf(p, level) == IF level \in DOMAIN p.stars THEN p.stars[level] ELSE 0

\* The progress of useState: { unlockedLevel: 1, stars: {}, hearts: 5 }.
InitialProgress == [unlockedLevel |-> 1, stars |-> <<>>, hearts |-> 5]

\* The progress of a player who has won every level below `level` once,
\* with three stars, and none from `level` on.
ProgressAt(level) ==
  [unlockedLevel |-> level, stars |-> [l \in 1..(level - 1) |-> 3], hearts |-> 5]

\* The updater of setProgress storing the new stars whatever was stored.
SetProgressOverwrites(prev, level, stars) ==
  [prev EXCEPT !.unlockedLevel = Max({prev.unlockedLevel, level + 1}),
               !.stars = [l \in DOMAIN prev.stars \cup {level} |->
                            IF l = level THEN stars ELSE prev.stars[l]]]

\* The updater of setProgress in handleGameOver, for a win on `level`.
SetProgressWon(prev, level, stars) ==
  [prev EXCEPT !.unlockedLevel = Max({prev.unlockedLevel, level + 1}),
               !.stars = [l \in DOMAIN prev.stars \cup {level} |->
                            IF l = level THEN Max({StarsOf(prev, level), stars})
                            ELSE prev.stars[l]]]

\* progress after App.handleGameOver has taken the calls of one pass.
RECURSIVE ProgressAfter(_, _, _)
ProgressAfter(prev, level, newCalls) ==
  IF newCalls = <<>> THEN prev
  ELSE ProgressAfter(IF Head(newCalls).won
                       THEN SetProgressWon(prev, level, Head(newCalls).stars)
                       ELSE prev,
                     level, Tail(newCalls))

Init ==
  /\ gameState = "MENU"
  /\ levelConfig \in Configs
  /\ progress = ProgressAt(levelConfig.levelNumber)
  /\ items = {}
  /\ tray = <<>>
  /\ timeLeft = levelConfig.timeLimitSeconds
  /\ isProcessingMatch = FALSE
  /\ matchedType = NoType
  /\ isInitialized = FALSE
  /\ initTimeout = FALSE
  /\ timer = FALSE
  /\ matchTimeouts = <<>>
  /\ calls = <<>>
  /\ lastOp = "none"

\* ---------------------------------------------------------------- isBlocked
\* isBlocked without the comparison of the shelves.
isBlockedAnyShelf(targetItem, allItems) ==
  \E item \in allItems :
    /\ ~item.isMatched
    /\ item.id # targetItem.id
    /\ item.slotIndex = targetItem.slotIndex
    /\ item.layer > targetItem.layer

\* An item is blocked if another item of the same shelf and slot has a
\* higher layer.
isBlocked(targetItem, allItems) ==
  \E item \in allItems :
    /\ ~item.isMatched
    /\ item.id # targetItem.id
    /\ item.shelfIndex = targetItem.shelfIndex
    /\ item.slotIndex = targetItem.slotIndex
    /\ item.layer > targetItem.layer

\* ---------------------------------------------------------- handleItemClick
\* handleItemClick with only its blocked-item return.
ClickRejectedBlockedOnly(clickedItem) == isBlocked(clickedItem, items)

\* handleItemClick without its blocked-item return.
ClickRejectedNoBlockCheck(clickedItem) ==
  \/ isProcessingMatch
  \/ Len(tray) >= MAX_TRAY_SIZE

\* handleItemClick without its isProcessingMatch return: clicks queue up
\* behind a pending resolution.
ClickRejectedQueues(clickedItem) ==
  \/ Len(tray) >= MAX_TRAY_SIZE
  \/ isBlocked(clickedItem, items)

\* The early returns of handleItemClick.
ClickRejected(clickedItem) ==
  \/ isProcessingMatch
  \/ Len(tray) >= MAX_TRAY_SIZE
  \/ isBlocked(clickedItem, items)

\* The early returns of the older handleItemClick kept in the same file.
ClickRejectedOld(clickedItem) ==
  \/ isProcessingMatch
  \/ Len(tray) >= MAX_TRAY_SIZE
  \/ isBlocked(clickedItem, items)

\* const newTray = [...tray, clickedItem]
TrayAfterClick(clickedItem) == Append(tray, clickedItem)

\* handleItemClick without its setItems: the item stays on the shelf.
ItemsAfterClickKeepsAll(clickedItem) == items

\* The filter comparing the type instead of the id.
ItemsAfterClickByType(clickedItem) == { i \in items : i.type # clickedItem.type }

\* setItems(prev => prev.filter(i => i.id !== clickedItem.id))
ItemsAfterClick(clickedItem) == { i \in items : i.id # clickedItem.id }

\* ------------------------------------------------------------ match effect
\* typeCounts[type] of the match effect.
TypeCount(tr, type) == Cardinality({ i \in DOMAIN tr : tr[i].type = type })

\* The search with >= 2 for >= 3: a pair already counts as a match.
FoundPairType(tr) ==
  LET hits == { i \in DOMAIN tr : TypeCount(tr, tr[i].type) >= 2 }
  IN  IF hits = {} THEN NoType ELSE tr[Min(hits)].type

\* Object.keys(typeCounts).find(key => typeCounts[key] >= 3): the keys come
\* in the order of their first occurrence in the tray.
FoundMatchedType(tr) ==
  LET hits == { i \in DOMAIN tr : TypeCount(tr, tr[i].type) >= 3 }
  IN  IF hits = {} THEN NoType ELSE tr[Min(hits)].type

\* The updater of the resolution timeout: the loop over prev with removedCount.
RECURSIVE RemoveLoop(_, _, _)
RemoveLoop(prev, type, removedCount) ==
  IF prev = <<>> THEN <<>>
  ELSE IF Head(prev).type = type /\ removedCount < 3
       THEN RemoveLoop(Tail(prev), type, removedCount + 1)
       ELSE <<Head(prev)>> \o RemoveLoop(Tail(prev), type, removedCount)

\* removedCount starting at 1: only two items go.
RemoveMatchedOffByOne(prev, type) == RemoveLoop(prev, type, 1)

\* The loop with > for <: removedCount is never above 3, nothing goes.
RemoveNothing(prev, type) == prev

\* The loop without its type test: the first three items go.
RemoveFirstThree(prev, type) == SubSeq(prev, 4, Len(prev))

RemoveMatched(prev, type) == RemoveLoop(prev, type, 0)

\* The loss check with > for >=: only a tray beyond its capacity loses.
MatchEffectLossBeyondCapacity(tr) ==
  /\ Len(tr) # 0
  /\ FoundMatchedType(tr) = NoType
  /\ Len(tr) > MAX_TRAY_SIZE

\* The loss check run after the if instead of in its else branch.
MatchEffectLossAnyFullTray(tr) ==
  /\ Len(tr) # 0
  /\ Len(tr) >= MAX_TRAY_SIZE

\* The else branch of the match effect: the tray is full and holds no triplet.
MatchEffectLoss(tr) ==
  /\ Len(tr) # 0
  /\ FoundMatchedType(tr) = NoType
  /\ Len(tr) >= MAX_TRAY_SIZE

\* ------------------------------------------------------------ Timer effect
\* The Timer effect with < for <=: the clock stops at zero without a report.
TimerEffectLossBelowZero(initialized, t) == initialized /\ t < 0

\* if (!isInitialized) return; if (timeLeft <= 0) { onGameOver(false, 0) }
TimerEffectLoss(initialized, t) == initialized /\ t <= 0

\* otherwise the effect arms the one-second interval
TimerEffectArms(initialized, t) == initialized /\ t > 0

\* -------------------------------------------------------------- win effect
\* The win check without the tray.
WinEffectWinShelfOnly(initialized, its, tr) ==
  initialized /\ Cardinality(its) = 0

\* The win check without the shelf.
WinEffectWinTrayOnly(initialized, its, tr) ==
  initialized /\ Len(tr) = 0

WinEffectWin(initialized, its, tr) ==
  initialized /\ Cardinality(its) = 0 /\ Len(tr) = 0

\* The rating taken from the time used instead of the time left.
StarsFromTimeUsed(t, cfg) ==
  IF cfg.timeLimitSeconds - t >= cfg.threeStarThreshold THEN 3
  ELSE IF cfg.timeLimitSeconds - t >= cfg.twoStarThreshold THEN 2 ELSE 1

\* The rating counted from zero: no star below the two-star threshold.
StarsFromZero(t, cfg) ==
  IF t >= cfg.threeStarThreshold THEN 2
  ELSE IF t >= cfg.twoStarThreshold THEN 1 ELSE 0

\* The stars of the win effect.
Stars(t, cfg) ==
  IF t >= cfg.threeStarThreshold THEN 3
  ELSE IF t >= cfg.twoStarThreshold THEN 2 ELSE 1

\* The onGameOver calls of one pass of the effects, in the effects' order.
\* runTimer, runMatch and runWin say whose dependencies changed in the render.
EffectCalls(runTimer, runMatch, runWin, initialized, its, tr, t) ==
     (IF runTimer /\ TimerEffectLoss(initialized, t)
        THEN << [won |-> FALSE, stars |-> 0] >> ELSE <<>>)
  \o (IF runMatch /\ MatchEffectLoss(tr)
        THEN << [won |-> FALSE, stars |-> 0] >> ELSE <<>>)
  \o (IF runWin /\ WinEffectWin(initialized, its, tr)
        THEN << [won |-> TRUE, stars |-> Stars(t, levelConfig)] >> ELSE <<>>)

\* App.handleGameOver for the calls of one pass: setGameState(WON or LOST),
\* the last call deciding.
GameStateAfter(current, newCalls) ==
  IF newCalls = <<>> THEN current
  ELSE IF newCalls[Len(newCalls)].won THEN "WON" ELSE "LOST"

\* handleGameOver without its setGameState: Game stays mounted.
HandleGameOverKeepsPlaying(newCalls, armed) ==
  /\ calls' = calls \o newCalls
  /\ progress' = ProgressAfter(progress, currentLevel, newCalls)
  /\ gameState' = gameState
  /\ timer' = armed

\* The calls of one pass reach App.handleGameOver.  Game is rendered only
\* while PLAYING: after a call it is unmounted, and the cleanup of its Timer
\* effect clears the interval.
HandleGameOver(newCalls, armed) ==
  /\ calls' = calls \o newCalls
  /\ progress' = ProgressAfter(progress, currentLevel, newCalls)
  /\ gameState' = GameStateAfter(gameState, newCalls)
  /\ timer' = (armed /\ newCalls = <<>>)

\* The match effect run a second time on the same tray, as a changed
\* onGameOver dependency would make it: the found triplet is scheduled twice.
MatchEffectSchedulesTwice(tr, pending) ==
  LET foundMatchedType == IF Len(tr) = 0 THEN NoType ELSE FoundMatchedType(tr)
  IN  IF foundMatchedType # NoType
        THEN /\ isProcessingMatch' = TRUE
             /\ matchedType' = foundMatchedType
             /\ matchTimeouts' =
                  Append(Append(pending, foundMatchedType), foundMatchedType)
        ELSE /\ isProcessingMatch' = FALSE
             /\ matchedType' = NoType
             /\ matchTimeouts' = pending

\* The match effect on a changed tray: a found triplet starts a resolution.
MatchEffect(tr, pending) ==
  LET foundMatchedType == IF Len(tr) = 0 THEN NoType ELSE FoundMatchedType(tr)
  IN  IF foundMatchedType # NoType
        THEN /\ isProcessingMatch' = TRUE
             /\ matchedType' = foundMatchedType
             /\ matchTimeouts' = Append(pending, foundMatchedType)
        ELSE /\ isProcessingMatch' = FALSE
             /\ matchedType' = NoType
             /\ matchTimeouts' = pending

\* ----------------------------------------------------------------- actions
\* App.handleLevelSelect mounts Game.  The effects run on Game's first render
\* (no items, empty tray, not initialized); the Initialize Level effect runs
\* generateLevel, and the match and win effects run again on the render of
\* the generated level.
HandleLevelSelect ==
  /\ gameState = "MENU"
  /\ currentLevel <= progress.unlockedLevel
  /\ \E draws \in TypeDraws(levelConfig) :
       \E poolPerm \in Shuffles(Len(TypePool(levelConfig, draws))) :
         \E posPerm \in Shuffles(Len(Positions(levelConfig))) :
           items' = GenerateLevel(levelConfig, draws, poolPerm, posPerm)
  /\ tray' = <<>>
  /\ timeLeft' = levelConfig.timeLimitSeconds
  /\ isInitialized' = FALSE
  /\ initTimeout' = TRUE
  /\ lastOp' = "mount"
  /\ LET newCalls ==
              EffectCalls(TRUE, TRUE, TRUE, FALSE, {}, <<>>, timeLeft')
           \o EffectCalls(FALSE, TRUE, TRUE, FALSE, items', tray', timeLeft')
     IN  /\ calls' = newCalls
         /\ progress' = ProgressAfter(progress, currentLevel, newCalls)
         /\ gameState' = GameStateAfter("PLAYING", newCalls)
  /\ UNCHANGED <<levelConfig, isProcessingMatch, matchedType, timer, matchTimeouts>>

\* A click on the button of an item of the shelf.
HandleItemClick(clickedItem) ==
  /\ gameState = "PLAYING"
  /\ clickedItem \in items
  /\ IF ClickRejected(clickedItem)
       THEN /\ lastOp' = "reject"
            /\ UNCHANGED <<gameState, levelConfig, items, tray, timeLeft,
                           isProcessingMatch, matchedType, isInitialized,
                           initTimeout, timer, matchTimeouts, progress, calls>>
       ELSE /\ lastOp' = "accept"
            /\ items' = ItemsAfterClick(clickedItem)
            /\ tray' = TrayAfterClick(clickedItem)
            /\ MatchEffect(tray', matchTimeouts)
            /\ HandleGameOver(EffectCalls(FALSE, TRUE, TRUE, isInitialized,
                                          items', tray', timeLeft), timer)
            /\ UNCHANGED <<levelConfig, timeLeft, isInitialized, initTimeout>>

\* The timeout of generateLevel, 100 ms after the mount: setIsInitialized(true).
InitTimeout ==
  /\ gameState = "PLAYING"
  /\ initTimeout
  /\ initTimeout' = FALSE
  /\ isInitialized' = TRUE
  /\ lastOp' = "init"
  /\ HandleGameOver(EffectCalls(TRUE, FALSE, TRUE, TRUE, items, tray, timeLeft),
                    TimerEffectArms(TRUE, timeLeft))
  /\ UNCHANGED <<levelConfig, items, tray, timeLeft, isProcessingMatch,
                 matchedType, matchTimeouts>>

\* The interval with the updater prev => prev + 1: the clock runs upwards.
TickCountsUp ==
  /\ gameState = "PLAYING"
  /\ timer
  /\ timeLeft' = timeLeft + 1
  /\ lastOp' = "tick"
  /\ HandleGameOver(EffectCalls(TRUE, FALSE, TRUE, isInitialized, items, tray,
                                timeLeft'),
                    TimerEffectArms(isInitialized, timeLeft'))
  /\ UNCHANGED <<levelConfig, items, tray, isProcessingMatch, matchedType,
                 isInitialized, initTimeout, matchTimeouts>>

\* One period of the interval: setTimeLeft(prev => prev - 1).
Tick ==
  /\ gameState = "PLAYING"
  /\ timer
  /\ timeLeft' = timeLeft - 1
  /\ lastOp' = "tick"
  /\ HandleGameOver(EffectCalls(TRUE, FALSE, TRUE, isInitialized, items, tray,
                                timeLeft'),
                    TimerEffectArms(isInitialized, timeLeft'))
  /\ UNCHANGED <<levelConfig, items, tray, isProcessingMatch, matchedType,
                 isInitialized, initTimeout, matchTimeouts>>

\* The resolution timeout, 500 ms after the match effect found a triplet.  It
\* is set after the 100 ms timeout of generateLevel and is longer, so it
\* runs after it.
MatchTimeout ==
  /\ gameState = "PLAYING"
  /\ matchTimeouts # <<>>
  /\ ~initTimeout
  /\ tray' = RemoveMatched(tray, Head(matchTimeouts))
  /\ lastOp' = "resolve"
  /\ MatchEffect(tray', Tail(matchTimeouts))
  /\ HandleGameOver(EffectCalls(FALSE, TRUE, Len(tray') # Len(tray),
                                isInitialized, items, tray', timeLeft), timer)
  /\ UNCHANGED <<levelConfig, items, timeLeft, isInitialized, initTimeout>>

Next ==
  \/ HandleLevelSelect
  \/ \E clickedItem \in items : HandleItemClick(clickedItem)
  \/ InitTimeout
  \/ Tick
  \/ MatchTimeout

Spec == Init /\ [][Next]_vars

\* The browser runs every scheduled timer callback: the init timeout, the
\* tick interval and the resolution timeouts fire as long as they stay
\* scheduled on a mounted Game.  Clicks are up to the player.
SpecFair ==
  Spec /\ WF_vars(InitTimeout) /\ WF_vars(Tick) /\ WF_vars(MatchTimeout)

\* The same with the timeouts alone: the tick interval may be arbitrarily
\* slow against them.
SpecFairTimeouts ==
  Spec /\ WF_vars(InitTimeout) /\ WF_vars(MatchTimeout)

\* --------------------------------------------- the levels of the map, rated
\* The App with any level of the map selected, its Game not yet mounted.
InitLevels ==
  /\ gameState = "MENU"
  /\ levelConfig \in LevelConfigs
  /\ progress = ProgressAt(levelConfig.levelNumber)
  /\ items = {}
  /\ tray = <<>>
  /\ timeLeft = levelConfig.timeLimitSeconds
  /\ isProcessingMatch = FALSE
  /\ matchedType = NoType
  /\ isInitialized = FALSE
  /\ initTimeout = FALSE
  /\ timer = FALSE
  /\ matchTimeouts = <<>>
  /\ calls = <<>>
  /\ lastOp = "none"

\* The win effect of an initialized session whose shelf and tray are empty,
\* run at the remaining time t.
WinEffectAt(t) ==
  /\ calls = <<>>
  /\ timeLeft' = t
  /\ isInitialized' = TRUE
  /\ lastOp' = "win"
  /\ HandleGameOver(EffectCalls(FALSE, FALSE, TRUE, TRUE, {}, <<>>, t), FALSE)
  /\ UNCHANGED <<levelConfig, items, tray, isProcessingMatch, matchedType,
                 initTimeout, matchTimeouts>>

NextLevels == \E t \in 0..levelConfig.timeLimitSeconds : WinEffectAt(t)

SpecLevels == InitLevels /\ [][NextLevels]_vars

\* ------------------------------------ pause, resume and the time after a Game
\* The single-slot level of three items of one type with a budget of three
\* seconds, the same level with no budget at all, and a level of two types
\* in two stacks.
SessionConfigs ==
  { [levelNumber |-> 1, timeLimitSeconds |-> 3, threeStarThreshold |-> 2,
     twoStarThreshold |-> 1, itemTypes |-> <<"apple">>,
     shelfCount |-> 1, slotsPerShelf |-> 1, layersPerSlot |-> 3, totalSets |-> 1],
    [levelNumber |-> 2, timeLimitSeconds |-> 0, threeStarThreshold |-> 0,
     twoStarThreshold |-> 0, itemTypes |-> <<"apple">>,
     shelfCount |-> 1, slotsPerShelf |-> 1, layersPerSlot |-> 3, totalSets |-> 1],
    [levelNumber |-> 3, timeLimitSeconds |-> 2, threeStarThreshold |-> 2,
     twoStarThreshold |-> 1, itemTypes |-> <<"apple", "banana">>,
     shelfCount |-> 1, slotsPerShelf |-> 2, layersPerSlot |-> 3, totalSets |-> 2] }

InitSession ==
  /\ gameState = "MENU"
  /\ levelConfig \in SessionConfigs
  /\ progress = ProgressAt(levelConfig.levelNumber)
  /\ items = {}
  /\ tray = <<>>
  /\ timeLeft = levelConfig.timeLimitSeconds
  /\ isProcessingMatch = FALSE
  /\ matchedType = NoType
  /\ isInitialized = FALSE
  /\ initTimeout = FALSE
  /\ timer = FALSE
  /\ matchTimeouts = <<>>
  /\ calls = <<>>
  /\ lastOp = "none"

\* onPause of the Game rendered by App: setGameState(GameState.PAUSED).  App
\* renders Game only while PLAYING, so Game is unmounted and the cleanup of
\* its Timer effect clears the interval; its timeouts stay scheduled.  The
\* variables of Game keep the last values of the unmounted instance.
OnPause ==
  /\ gameState = "PLAYING"
  /\ gameState' = "PAUSED"
  /\ timer' = FALSE
  /\ lastOp' = "pause"
  /\ UNCHANGED <<levelConfig, items, tray, timeLeft, isProcessingMatch,
                 matchedType, isInitialized, initTimeout, matchTimeouts,
                 progress, calls>>

\* The Resume button: setGameState(GameState.PLAYING).  App renders a new
\* Game, whose state starts from its useState defaults and whose Initialize
\* Level effect runs generateLevel.  Timeouts of the unmounted instance
\* address that instance only and are no longer followed.
Resume ==
  /\ gameState = "PAUSED"
  /\ \E draws \in TypeDraws(levelConfig) :
       \E poolPerm \in Shuffles(Len(TypePool(levelConfig, draws))) :
         \E posPerm \in Shuffles(Len(Positions(levelConfig))) :
           items' = GenerateLevel(levelConfig, draws, poolPerm, posPerm)
  /\ tray' = <<>>
  /\ timeLeft' = levelConfig.timeLimitSeconds
  /\ isProcessingMatch' = FALSE
  /\ matchedType' = NoType
  /\ isInitialized' = FALSE
  /\ initTimeout' = TRUE
  /\ timer' = FALSE
  /\ matchTimeouts' = <<>>
  /\ lastOp' = "mount"
  /\ LET newCalls ==
              EffectCalls(TRUE, TRUE, TRUE, FALSE, {}, <<>>, timeLeft')
           \o EffectCalls(FALSE, TRUE, TRUE, FALSE, items', tray', timeLeft')
     IN  /\ calls' = calls \o newCalls
         /\ progress' = ProgressAfter(progress, currentLevel, newCalls)
         /\ gameState' = GameStateAfter("PLAYING", newCalls)
  /\ UNCHANGED levelConfig

\* A click where the shelf was, after Game is unmounted: its buttons are
\* gone and no handleItemClick runs.
LateClick ==
  /\ gameState \in {"WON", "LOST", "PAUSED"}
  /\ lastOp' = "lateClick"
  /\ UNCHANGED <<gameState, levelConfig, items, tray, timeLeft,
                 isProcessingMatch, matchedType, isInitialized, initTimeout,
                 timer, matchTimeouts, progress, calls>>

\* A timeout of an unmounted Game fires: its state updates address the
\* unmounted instance and change nothing.
LateTimeout ==
  /\ gameState \in {"WON", "LOST", "PAUSED"}
  /\ \/ /\ initTimeout
        /\ initTimeout' = FALSE
        /\ UNCHANGED matchTimeouts
     \/ /\ ~initTimeout
        /\ matchTimeouts # <<>>
        /\ matchTimeouts' = Tail(matchTimeouts)
        /\ UNCHANGED initTimeout
  /\ lastOp' = "lateTimeout"
  /\ UNCHANGED <<gameState, levelConfig, items, tray, timeLeft,
                 isProcessingMatch, matchedType, isInitialized, timer,
                 progress, calls>>

NextSession ==
  \/ Next
  \/ OnPause
  \/ Resume
  \/ LateClick
  \/ LateTimeout

SpecSession == InitSession /\ [][NextSession]_vars

\* -------------------------------------------- the App over the whole map
\* The App with the play of its Game reduced to the result the Game reports:
\* the shelf and the tray of the mounted Game are not represented.

\* How far beyond MAX_LEVELS the footer button is followed.
MaxBeyond == 1

\* The levels up to MaxRatedLevel are won at every rating, the later ones
\* with three stars.
MaxRatedLevel == 2

\* The remaining times at which a win is reported: full time, the two-star
\* threshold, and the last second.
WinTimes(cfg) ==
  IF cfg.levelNumber <= MaxRatedLevel
    THEN {cfg.timeLimitSeconds, cfg.twoStarThreshold, 1}
    ELSE {cfg.timeLimitSeconds}

\* The App of the first render: MENU, currentLevel 1, nothing won.
InitApp ==
  /\ gameState = "MENU"
  /\ levelConfig = getLevelConfig(1)
  /\ progress = InitialProgress
  /\ items = {}
  /\ tray = <<>>
  /\ timeLeft = levelConfig.timeLimitSeconds
  /\ isProcessingMatch = FALSE
  /\ matchedType = NoType
  /\ isInitialized = FALSE
  /\ initTimeout = FALSE
  /\ timer = FALSE
  /\ matchTimeouts = <<>>
  /\ calls = <<>>
  /\ lastOp = "none"

\* App renders a new Game for the level of cfg: the state of Game starts
\* from its useState defaults and the timeout of generateLevel is set.
MountGame(cfg) ==
  /\ gameState' = "PLAYING"
  /\ levelConfig' = cfg
  /\ items' = {}
  /\ tray' = <<>>
  /\ timeLeft' = cfg.timeLimitSeconds
  /\ isProcessingMatch' = FALSE
  /\ matchedType' = NoType
  /\ isInitialized' = FALSE
  /\ initTimeout' = TRUE
  /\ timer' = FALSE
  /\ matchTimeouts' = <<>>
  /\ calls' = <<>>
  /\ UNCHANGED progress

\* handleLevelSelect without its comparison with progress.unlockedLevel.
SelectLevelUnlocked(level) ==
  /\ gameState \in {"MENU", "MAP"}
  /\ level <= MAX_LEVELS + MaxBeyond
  /\ MountGame(getLevelConfig(level))
  /\ lastOp' = "select"

\* handleLevelSelect(level), from a button of the map or from the footer
\* button, which passes progress.unlockedLevel.
SelectLevel(level) ==
  /\ gameState \in {"MENU", "MAP"}
  /\ level <= MAX_LEVELS + MaxBeyond
  /\ IF level <= progress.unlockedLevel
       THEN /\ MountGame(getLevelConfig(level))
            /\ lastOp' = "select"
       ELSE /\ lastOp' = "locked"
            /\ UNCHANGED <<gameState, levelConfig, items, tray, timeLeft,
                           isProcessingMatch, matchedType, isInitialized,
                           initTimeout, timer, matchTimeouts, progress, calls>>

\* The win effect of the mounted Game, initialized and with shelf and tray
\* cleared, at the remaining time t.
GameReportsWin(t) ==
  /\ gameState = "PLAYING"
  /\ timeLeft' = t
  /\ isInitialized' = TRUE
  /\ initTimeout' = FALSE
  /\ lastOp' = "win"
  /\ HandleGameOver(EffectCalls(FALSE, FALSE, TRUE, TRUE, {}, <<>>, t), FALSE)
  /\ UNCHANGED <<levelConfig, items, tray, isProcessingMatch, matchedType,
                 matchTimeouts>>

\* The Timer effect of the mounted Game, initialized, with the time run out.
GameReportsLoss ==
  /\ gameState = "PLAYING"
  /\ timeLeft' = 0
  /\ isInitialized' = TRUE
  /\ initTimeout' = FALSE
  /\ lastOp' = "loss"
  /\ HandleGameOver(EffectCalls(TRUE, FALSE, FALSE, TRUE, {}, <<>>, 0), FALSE)
  /\ UNCHANGED <<levelConfig, items, tray, isProcessingMatch, matchedType,
                 matchTimeouts>>

\* handleNextLevel, the button of the result screen of a win.
HandleNextLevel ==
  /\ gameState = "WON"
  /\ lastOp' = "next"
  /\ IF currentLevel < MAX_LEVELS
       THEN MountGame(getLevelConfig(currentLevel + 1))
       ELSE /\ gameState' = "MAP"
            /\ UNCHANGED <<levelConfig, items, tray, timeLeft,
                           isProcessingMatch, matchedType, isInitialized,
                           initTimeout, timer, matchTimeouts, progress, calls>>

\* handleRetry, the button of the result screen of a loss.
HandleRetry ==
  /\ gameState = "LOST"
  /\ lastOp' = "retry"
  /\ MountGame(levelConfig)

\* handleHome, the Map button of the result screens and Exit to Map of the
\* pause overlay.
HandleHome ==
  /\ gameState \in {"WON", "LOST", "PAUSED"}
  /\ gameState' = "MAP"
  /\ lastOp' = "home"
  /\ UNCHANGED <<levelConfig, items, tray, timeLeft, isProcessingMatch,
                 matchedType, isInitialized, initTimeout, timer, matchTimeouts,
                 progress, calls>>

\* The Resume button of the pause overlay: a new Game for the same level.
ResumeLevel ==
  /\ gameState = "PAUSED"
  /\ lastOp' = "resume"
  /\ MountGame(levelConfig)

NextApp ==
  \/ \E level \in 1..MAX_LEVELS : SelectLevel(level)
  \/ SelectLevel(progress.unlockedLevel)
  \/ \E t \in WinTimes(levelConfig) : GameReportsWin(t)
  \/ GameReportsLoss
  \/ HandleNextLevel
  \/ HandleRetry
  \/ HandleHome
  \/ OnPause
  \/ ResumeLevel

SpecApp == InitApp /\ [][NextApp]_vars

\* ------------------------------------------------------------------ claims
Mounted == gameState = "PLAYING"

Range(seq) == { seq[i] : i \in DOMAIN seq }

\* C1: in every reachable state of an attempt the tray holds at most
\* MAX_TRAY_SIZE items.
C1_TrayWithinCapacity == Len(tray) <= MAX_TRAY_SIZE

\* A click arrived at a full tray and was turned away.
C1_Witness == Len(tray) = MAX_TRAY_SIZE /\ lastOp = "reject" /\ items # {}

WinInvoked == \E i \in DOMAIN calls : calls[i].won

\* C3: a win is reported only with shelf and tray both empty, and every
\* initialized state with shelf and tray both empty has had its win reported.
C3_WinIffEmpty ==
  /\ WinInvoked => (items = {} /\ tray = <<>>)
  /\ (gameState # "MENU" /\ isInitialized /\ items = {} /\ tray = <<>>) => WinInvoked

\* The last triplet was resolved and the win reported.
C3_Witness == WinInvoked /\ lastOp = "resolve" /\ gameState = "WON"
\* The indices of seq whose item has the given type.
IndicesOfType(seq, type) == { i \in DOMAIN seq : seq[i].type = type }

\* seq without the items at the indices in drop, the others in their order.
WithoutIndices(seq, drop) ==
  LET kept == DOMAIN seq \ drop
  IN  [k \in 1..Cardinality(kept) |->
         seq[CHOOSE i \in kept : Cardinality({ j \in kept : j <= i }) = k]]

\* C4: a completed resolution removes exactly the first three tray items of
\* the matched type; the other items stay, in their order.
C4_ResolutionRemovesFirstThree ==
  [][lastOp' = "resolve" =>
       LET ofType == IndicesOfType(tray, matchedType)
           firstThree == { i \in ofType : Cardinality({ j \in ofType : j < i }) < 3 }
       IN  /\ Cardinality(firstThree) = 3
           /\ tray' = WithoutIndices(tray, firstThree)]_vars

\* A resolution has run and left at least two items of other types behind.
C4_Witness == lastOp = "resolve" /\ Len(tray) >= 2

\* Another item of the same shelf and slot lies in front of it.
Covered(it, its) ==
  \E other \in its :
    /\ other.shelfIndex = it.shelfIndex
    /\ other.slotIndex = it.slotIndex
    /\ other.layer > it.layer

SlotGroup(it, its) ==
  { other \in its : other.shelfIndex = it.shelfIndex /\ other.slotIndex = it.slotIndex }

\* C5: isBlocked holds iff another item of the shelf set shares the shelf and
\* the slot and has a greater layer; so in each occupied slot the item of the
\* greatest layer is unblocked and every other item is blocked.
C5_BlockedIffCovered ==
  \A it \in items :
    /\ isBlocked(it, items) <=> Covered(it, items)
    /\ isBlocked(it, items) <=>
         (it.layer # Max({ other.layer : other \in SlotGroup(it, items) }))

\* After an accepted click a slot still holds a blocked item, and another
\* shelf holds an item in the same slot index.
C5_Witness ==
  /\ lastOp = "accept"
  /\ \E it \in items : isBlocked(it, items)
  /\ \E a, b \in items : a.shelfIndex # b.shelfIndex /\ a.slotIndex = b.slotIndex

\* C6: a click on a blocked item or at a full tray is never accepted, and a
\* click that is turned away changes nothing and fires no callback.
C6_RejectedClickIsNoOp ==
  [][/\ lastOp' = "reject" =>
          UNCHANGED <<gameState, items, tray, timeLeft, isProcessingMatch,
                      matchedType, isInitialized, initTimeout, timer,
                      matchTimeouts, calls>>
     /\ lastOp' = "accept" =>
          /\ Len(tray') = Len(tray) + 1
          /\ ~Covered(tray'[Len(tray')], items)
          /\ Len(tray) < MAX_TRAY_SIZE]_vars

\* A click on a blocked item was turned away: no resolution is pending and
\* the tray has room.
C6_Witness ==
  /\ lastOp = "reject"
  /\ Mounted
  /\ ~isProcessingMatch
  /\ Len(tray) < MAX_TRAY_SIZE
  /\ tray # <<>>

\* C7: while a matched triplet is pending removal no click is accepted, shelf
\* and tray are unchanged by a click, in both variants of handleItemClick.
C7_NoClickWhileResolving ==
  /\ [][(isProcessingMatch /\ lastOp' \in {"accept", "reject"}) =>
          (lastOp' = "reject" /\ UNCHANGED <<items, tray>>)]_vars
  /\ [](isProcessingMatch =>
          \A it \in items : ClickRejected(it) /\ ClickRejectedOld(it))

\* A click on an unblocked item was turned away during a resolution, with
\* room in the tray.
C7_Witness ==
  /\ lastOp = "reject"
  /\ Mounted
  /\ isProcessingMatch
  /\ Len(tray) < MAX_TRAY_SIZE
  /\ \A it \in items : ~isBlocked(it, items)
  /\ items # {}

\* C8: an accepted click removes exactly the clicked item from the shelf,
\* appends it at the end of the tray and leaves the time alone.
C8_AcceptedClickFrame ==
  [][lastOp' = "accept" =>
       \E it \in items :
         /\ items' = items \ {it}
         /\ tray' = Append(tray, it)
         /\ timeLeft' = timeLeft]_vars

\* An accepted click with items before it in the tray and an item of its own
\* type left on the shelf.
C8_Witness ==
  /\ lastOp = "accept"
  /\ Len(tray) >= 2
  /\ \E it \in items : it.type = tray[Len(tray)].type

GridCapacity(cfg) == cfg.shelfCount * cfg.slotsPerShelf * cfg.layersPerSlot

\* C9: for a configuration whose grid holds totalSets * 3 items, generateLevel
\* makes exactly totalSets * 3 items, every type from itemTypes, every type a
\* multiple of three times.
C9_GeneratedCounts ==
  (lastOp = "mount" /\ GridCapacity(levelConfig) >= levelConfig.totalSets * 3) =>
    /\ Cardinality(items) = levelConfig.totalSets * 3
    /\ \A it \in items : it.type \in Range(levelConfig.itemTypes)
    /\ \A type \in Range(levelConfig.itemTypes) :
         Cardinality({ it \in items : it.type = type }) % 3 = 0

\* A level of two types was generated into a grid with room to spare.
C9_Witness ==
  /\ lastOp = "mount"
  /\ GridCapacity(levelConfig) > levelConfig.totalSets * 3
  /\ \E a, b \in items : a.type # b.type

AllItems == items \cup Range(tray)

\* C10: no two items share (shelfIndex, slotIndex, layer), every position
\* lies inside the configured grid, in every reachable state.
C10_PositionsDistinctInGrid ==
  /\ \A a, b \in AllItems :
       (a.shelfIndex = b.shelfIndex /\ a.slotIndex = b.slotIndex /\ a.layer = b.layer)
         => a = b
  /\ \A a \in AllItems :
       /\ a.shelfIndex \in 0..(levelConfig.shelfCount - 1)
       /\ a.slotIndex \in 0..(levelConfig.slotsPerShelf - 1)
       /\ a.layer \in 0..(levelConfig.layersPerSlot - 1)

\* A generated level with stacked slots on two shelves, some items already in
\* the tray.
C10_Witness ==
  /\ tray # <<>>
  /\ \E a, b \in items : a.shelfIndex # b.shelfIndex
  /\ \E a, b \in items :
       a.shelfIndex = b.shelfIndex /\ a.slotIndex = b.slotIndex /\ a.layer # b.layer

\* C11: for every level 1..MAX_LEVELS the configuration of getLevelConfig has
\* room for its items: shelfCount * slotsPerShelf * layersPerSlot >=
\* totalSets * 3.
C11_CapacityHoldsEverySet ==
  GridCapacity(levelConfig) >= levelConfig.totalSets * 3

\* C12: when the grid has fewer cells than totalSets * 3, generateLevel clamps
\* the sets down: the number of generated items is a multiple of three not
\* above the capacity, and every type occurs a multiple of three times.
C12_TruncationKeepsWholeSets ==
  (lastOp = "mount" /\ GridCapacity(levelConfig) < levelConfig.totalSets * 3) =>
    /\ Cardinality(items) % 3 = 0
    /\ Cardinality(items) <= GridCapacity(levelConfig)
    /\ \A type \in Range(levelConfig.itemTypes) :
         Cardinality({ it \in items : it.type = type }) % 3 = 0

\* The Timer effect reported the loss: the tick that brought timeLeft to zero
\* ended in onGameOver(false, 0).
TimeoutLossReported ==
  /\ lastOp = "tick"
  /\ calls # <<>>
  /\ calls[1] = [won |-> FALSE, stars |-> 0]

\* C13: the loss by time exhaustion is reported when the remaining time
\* reaches zero while shelf items remain, and it is not reported in a state
\* whose shelf set is empty.
C13_TimeoutLossNeedsShelfItems ==
  /\ (lastOp = "tick" /\ timeLeft <= 0 /\ items # {}) => TimeoutLossReported
  /\ TimeoutLossReported => items # {}

\* The match effect reported the loss: a click or a resolution ended in
\* onGameOver(false, 0).
TrayLossReported ==
  /\ lastOp \in {"accept", "resolve"}
  /\ calls # <<>>
  /\ calls[1] = [won |-> FALSE, stars |-> 0]

HoldsTriplet(tr) == \E i \in DOMAIN tr : TypeCount(tr, tr[i].type) >= 3

\* C14: the tray-caused loss is reported only when the tray holds
\* MAX_TRAY_SIZE items and no type occurs three times in it; when the full
\* tray holds a triplet no loss is reported and the triplet's resolution is
\* under way instead.
C14_TrayLossOnlyFullWithoutTriplet ==
  /\ TrayLossReported => (Len(tray) = MAX_TRAY_SIZE /\ ~HoldsTriplet(tray))
  /\ (lastOp = "accept" /\ Len(tray) = MAX_TRAY_SIZE /\ HoldsTriplet(tray)) =>
       /\ calls = <<>>
       /\ gameState = "PLAYING"
       /\ isProcessingMatch
       /\ TypeCount(tray, matchedType) >= 3
       /\ matchTimeouts # <<>>
       /\ matchTimeouts[Len(matchTimeouts)] = matchedType

\* The seventh item completed a triplet: the tray is full and resolving.
C14_Witness ==
  /\ lastOp = "accept"
  /\ Len(tray) = MAX_TRAY_SIZE
  /\ HoldsTriplet(tray)
  /\ isProcessingMatch

LossReported == calls # <<>> /\ ~calls[1].won

\* C15: with seven items in the tray that form no triplet, the tray stays at
\* seven and the full tray is not by itself a loss: onGameOver(false, _) is
\* not fired unless the budget is exhausted with shelf items remaining.
C15_FullTrayIsNoLossByItself ==
  /\ Len(tray) <= MAX_TRAY_SIZE
  /\ (Len(tray) = MAX_TRAY_SIZE /\ ~HoldsTriplet(tray) /\ LossReported) =>
       (timeLeft <= 0 /\ items # {})

\* C15 as amended: the seventh item that fills the tray without a triplet is
\* reported as a loss at once, whatever the remaining time; the session ends
\* there, so the tray never grows beyond seven.
C15_FullTrayWithoutTripletIsLoss ==
  /\ Len(tray) <= MAX_TRAY_SIZE
  /\ (Len(tray) = MAX_TRAY_SIZE /\ ~HoldsTriplet(tray)) =>
       /\ calls = << [won |-> FALSE, stars |-> 0] >>
       /\ gameState = "LOST"

\* Seven items without a triplet, time left on the clock, items on the shelf:
\* the session is lost.
C15_Witness ==
  /\ Len(tray) = MAX_TRAY_SIZE
  /\ ~HoldsTriplet(tray)
  /\ timeLeft > 0
  /\ items # {}
  /\ gameState = "LOST"

\* C16: when a session is torn down (here: Game unmounted by its game over)
\* every pending match-resolution timeout, the initialization-grace timeout
\* and the tick interval of that session are cancelled, so that no callback
\* of the old session is left to fire later.
C16_TimersCancelledOnTeardown ==
  gameState \in {"WON", "LOST"} =>
    /\ ~timer
    /\ ~initTimeout
    /\ matchTimeouts = <<>>

\* C18: onGameOver is never invoked while the initialization flag is false:
\* no win, no time-out loss and no tray-full loss is reported during the
\* grace window, whatever is clicked in it.
C18_NoGameOverBeforeInitialized == ~isInitialized => calls = <<>>

\* The shelf is an item set generateLevel produces for the configuration.
FreshlyGenerated ==
  \E draws \in TypeDraws(levelConfig) :
    \E poolPerm \in Shuffles(Len(TypePool(levelConfig, draws))) :
      \E posPerm \in Shuffles(GridCapacity(levelConfig)) :
        items = GenerateLevel(levelConfig, draws, poolPerm, posPerm)

\* C17: right after a level start the tray is empty, the remaining time is
\* the configured limit, the shelf holds a freshly generated item set, the
\* session is not terminal and the initialization flag is false; the flag
\* becomes true later.
C17_LevelStartResetsSession ==
  /\ [](lastOp = "mount" =>
          /\ tray = <<>>
          /\ timeLeft = levelConfig.timeLimitSeconds
          /\ FreshlyGenerated
          /\ gameState = "PLAYING"
          /\ calls = <<>>
          /\ ~isInitialized)
  /\ (lastOp = "mount" ~> isInitialized)

\* C20: under fair ticks and fair timer callbacks every started attempt
\* eventually reports its result through onGameOver.
C20_AttemptEventuallyReports == Mounted ~> (calls # <<>>)

\* A session that was initialized, ran out of time and reported it.
C20_Witness ==
  /\ isInitialized
  /\ TimeoutLossReported
  /\ timeLeft = 0

\* C19: the stars reported on a win are 3 if timeLeft >= threeStarThreshold,
\* else 2 if timeLeft >= twoStarThreshold, else 1, and for every configuration
\* of getLevelConfig a larger timeLeft never yields fewer stars: no smaller
\* remaining time is rated higher than the reported one.
C19_StarsMonotoneInTimeLeft ==
  WinInvoked =>
    /\ calls[1].stars =
         IF timeLeft >= levelConfig.threeStarThreshold THEN 3
         ELSE IF timeLeft >= levelConfig.twoStarThreshold THEN 2 ELSE 1
    /\ \A t \in 0..timeLeft : Stars(t, levelConfig) <= calls[1].stars
    /\ \A t \in timeLeft..levelConfig.timeLimitSeconds :
         Stars(t, levelConfig) >= calls[1].stars

\* A win of the last level of the map rated two stars.
C19_Witness ==
  /\ WinInvoked
  /\ levelConfig.levelNumber = MAX_LEVELS
  /\ calls[1].stars = 2

C22_ZeroBudgetRejectsClicks ==
  (levelConfig.timeLimitSeconds = 0 /\ gameState # "MENU") =>
    /\ lastOp # "accept"
    /\ tray = <<>>
    /\ Cardinality(items) = 3 * levelConfig.totalSets
    /\ isInitialized => calls = << [won |-> FALSE, stars |-> 0] >>

\* The scenario's level: one slot of three layers, one set of one type, a
\* budget of three.
ScenarioLevel ==
  /\ levelConfig.shelfCount = 1
  /\ levelConfig.slotsPerShelf = 1
  /\ levelConfig.layersPerSlot = 3
  /\ levelConfig.totalSets = 1
  /\ Len(levelConfig.itemTypes) = 1
  /\ levelConfig.timeLimitSeconds = 3

\* The generated stack of the scenario, with only its top item unblocked.
ScenarioStacked ==
  /\ Cardinality(items) = 3
  /\ \A it \in items :
       /\ it.type = levelConfig.itemTypes[1]
       /\ it.shelfIndex = 0
       /\ it.slotIndex = 0
       /\ it.layer \in 0..2
       /\ isBlocked(it, items) <=> it.layer # 2

\* The top of what is left of the stack is unblocked.
ScenarioTopUnblocked ==
  \A it \in items :
    (\A other \in items : other.layer <= it.layer) => ~isBlocked(it, items)

\* C23: in the scenario's level the three items are stacked in the single
\* slot with only the layer-2 item unblocked, each accepted click unblocks
\* the next item, and after three clicks and the resolution shelf and tray
\* are empty and onGameOver(true, 3) is fired.
C23_ScenarioWinsWithThreeStars ==
  ScenarioLevel =>
    /\ lastOp = "mount" => ScenarioStacked
    /\ lastOp = "accept" => ScenarioTopUnblocked
    /\ (lastOp = "resolve" /\ items = {}) =>
         /\ tray = <<>>
         /\ calls = << [won |-> TRUE, stars |-> 3] >>

\* C23 as amended: the stars of the scenario's win are those of the time
\* left when the resolution runs, 3 only from threeStarThreshold up.
C23_ScenarioWinsRatedByTimeLeft ==
  ScenarioLevel =>
    /\ lastOp = "mount" => ScenarioStacked
    /\ lastOp = "accept" => ScenarioTopUnblocked
    /\ (lastOp = "resolve" /\ items = {}) =>
         /\ tray = <<>>
         /\ calls = << [won |-> TRUE,
                        stars |-> IF timeLeft >= levelConfig.threeStarThreshold THEN 3
                                  ELSE IF timeLeft >= levelConfig.twoStarThreshold
                                  THEN 2 ELSE 1] >>

\* The scenario won with one second left: two stars.
C23_Witness ==
  /\ ScenarioLevel
  /\ lastOp = "resolve"
  /\ items = {}
  /\ timeLeft = 1
  /\ calls = << [won |-> TRUE, stars |-> 2] >>

\* Some sequence of accepted clicks and resolutions leads from shelf its and
\* tray tr to shelf and tray both empty, the tray never full without a
\* triplet on the way.
RECURSIVE Solvable(_, _)
Solvable(its, tr) ==
  IF its = {} /\ tr = <<>> THEN TRUE
  ELSE IF tr # <<>> /\ FoundMatchedType(tr) # NoType
    THEN Solvable(its, RemoveMatched(tr, FoundMatchedType(tr)))
  ELSE IF Len(tr) >= MAX_TRAY_SIZE THEN FALSE
  ELSE \E it \in its :
         /\ ~isBlocked(it, its)
         /\ Solvable(its \ {it}, Append(tr, it))

\* C24: every layout generateLevel produces from a configuration whose grid
\* holds all its sets is solvable.
C24_EveryLayoutSolvable ==
  (lastOp = "mount" /\ GridCapacity(levelConfig) >= levelConfig.totalSets * 3) =>
    Solvable(items, <<>>)

\* C25: whenever an item has been added to the tray and some type occurs
\* three or more times in it, the matcher is Resolving with that type as
\* matchedType; when no type reaches three, the matcher stays Idle.
C25_ResolvingIffTripletAfterAdd ==
  lastOp = "accept" =>
    IF HoldsTriplet(tray)
      THEN /\ isProcessingMatch
           /\ matchedType # NoType
           /\ TypeCount(tray, matchedType) >= 3
      ELSE /\ ~isProcessingMatch
           /\ matchedType = NoType

\* An added item completed a triplet among other items of the tray.
C25_Witness ==
  /\ lastOp = "accept"
  /\ isProcessingMatch
  /\ \E i \in DOMAIN tray : tray[i].type # matchedType
  /\ gameState = "PLAYING"

\* The types of which tray t2 holds fewer items than tray t1.
TypesRemoved(t1, t2) ==
  { type \in { t1[i].type : i \in DOMAIN t1 } :
      TypeCount(t2, type) < TypeCount(t1, type) }

\* C26: a resolution cycle removes items of exactly one type; if another
\* type still occurs three or more times afterwards a new Resolving cycle
\* starts for it, and the matcher is Idle only when no type occurs three or
\* more times in the tray.
C26_OneTypePerCycle ==
  [][ /\ Len(tray') < Len(tray) =>
           /\ Cardinality(TypesRemoved(tray, tray')) = 1
           /\ HoldsTriplet(tray') =>
                /\ isProcessingMatch'
                /\ TypeCount(tray', matchedType') >= 3
                /\ matchTimeouts' # <<>>
      /\ ~isProcessingMatch' => ~HoldsTriplet(tray') ]_vars

\* A resolution took its triplet out from among other items and left the
\* matcher Idle.
C26_Witness ==
  /\ lastOp = "resolve"
  /\ tray # <<>>
  /\ ~isProcessingMatch
  /\ matchedType = NoType
  /\ gameState = "PLAYING"

Ids(its) == { it.id : it \in its }

\* C27: within a level attempt no item changes its (shelfIndex, slotIndex,
\* layer) or its type, the shelf set only shrinks, and no item of the tray
\* goes back to the shelf.
C27_ItemsOnlyLeave ==
  [][gameState = "PLAYING" =>
       /\ items' \subseteq items
       /\ Ids(items') \cap Ids(Range(tray)) = {}
       /\ \A a \in items' \cup Range(tray') :
            \E b \in items \cup Range(tray) :
              /\ b.id = a.id
              /\ b.shelfIndex = a.shelfIndex
              /\ b.slotIndex = a.slotIndex
              /\ b.layer = a.layer
              /\ b.type = a.type ]_vars

\* A resolution that left one item in the tray and items on the shelf.
C27_Witness ==
  /\ lastOp = "resolve"
  /\ Len(tray) = 1
  /\ items # {}

\* C28: a pause followed by resume continues the same session: shelf set,
\* tray and remaining time after the resume equal their values at the
\* moment of the pause.
C28_ResumeContinuesSession ==
  [][(gameState = "PAUSED" /\ gameState' = "PLAYING") =>
       /\ items' = items
       /\ tray' = tray
       /\ timeLeft' = timeLeft ]_vars

\* The items left in the slot the last accepted click took its item from.
LeftInSlotOfLastClick ==
  { it \in items : /\ it.shelfIndex = tray[Len(tray)].shelfIndex
                   /\ it.slotIndex = tray[Len(tray)].slotIndex }

\* C29: after an accepted click on the top item of a slot, the item with
\* the next-highest layer of that slot, if any, is unblocked in the very
\* next state.
C29_ClickUnblocksNextInSlot ==
  lastOp = "accept" =>
    \A it \in LeftInSlotOfLastClick :
      /\ it.layer < tray[Len(tray)].layer
      /\ (\A other \in LeftInSlotOfLastClick : other.layer <= it.layer)
           => ~isBlocked(it, items)

\* The accepted click took the top of a slot that holds more items.
C29_Witness ==
  /\ lastOp = "accept"
  /\ LeftInSlotOfLastClick # {}
  /\ \E it \in items : isBlocked(it, items)

Resolving == isProcessingMatch /\ matchedType # NoType

Idle == ~isProcessingMatch /\ matchedType = NoType

\* C30: every Resolving state of a mounted session is eventually followed
\* by an Idle state in which the matched triplet is gone from the tray,
\* unless the session is torn down first.
C30_ResolvingLeadsToIdle ==
  (Mounted /\ Resolving) ~> ((Idle /\ ~HoldsTriplet(tray)) \/ ~Mounted)

\* The matcher is back to Idle after a resolution, the session still on.
C30_Witness ==
  /\ lastOp = "resolve"
  /\ Idle
  /\ ~HoldsTriplet(tray)
  /\ gameState = "PLAYING"
  /\ isInitialized

\* --------------------------------------------------- conservation of items
\* newItems.length of generateLevel: three per set, cut to the grid.
GeneratedCount(cfg) ==
  IF 3 * cfg.totalSets < GridCapacity(cfg) THEN 3 * cfg.totalSets
  ELSE GridCapacity(cfg)

\* The items on the shelves and in the tray together.
Held(its, tr) == Cardinality(its) + Len(tr)

\* No item occurs twice in the tray.
TrayDistinct(tr) == \A i, j \in DOMAIN tr : tr[i].id = tr[j].id => i = j

\* C31: items are conserved within an attempt: the shelf set and the tray
\* are disjoint, no item occurs twice in the tray, and |shelf| + |tray| +
\* 3 * (completed resolutions) is the number of generated items: the mount
\* holds all generated items, every completed resolution takes exactly
\* three of the held items away and no other step changes their number.
C31_ItemsConserved ==
  [][/\ Ids(items') \cap Ids(Range(tray')) = {}
     /\ TrayDistinct(tray')
     /\ lastOp' = "mount" => Held(items', tray') = GeneratedCount(levelConfig')
     /\ lastOp' = "resolve" => Held(items', tray') + 3 = Held(items, tray)
     /\ lastOp' \notin {"mount", "resolve"}
          => Held(items', tray') = Held(items, tray) ]_vars

\* Two resolutions have completed and items are left in both places.
C31_Witness ==
  /\ lastOp = "resolve"
  /\ Held(items, tray) + 6 = GeneratedCount(levelConfig)
  /\ items # {}
  /\ tray # <<>>

\* The types of the items of the tray.
TrayTypes(tr) == { tr[i].type : i \in DOMAIN tr }

\* C32: no item type occurs more than three times in the tray and at most
\* one type occurs three times; so a resolution removes all tray items of
\* the matched type.
C32_AtMostOneTripletInTray ==
  [][/\ \A type \in TrayTypes(tray') : TypeCount(tray', type) <= 3
     /\ Cardinality({ type \in TrayTypes(tray') :
                        TypeCount(tray', type) = 3 }) <= 1
     /\ lastOp' = "resolve" => TypeCount(tray', matchedType) = 0 ]_vars

\* A resolution took its triplet out of a tray that held other items too.
C32_Witness ==
  /\ lastOp = "resolve"
  /\ Len(tray) >= 2
  /\ ~HoldsTriplet(tray)

C34_TimeLeftWithinBounds ==
  [][/\ 0 <= timeLeft'
     /\ timeLeft' <= levelConfig'.timeLimitSeconds
     /\ lastOp' # "mount" => timeLeft' <= timeLeft
     /\ (lastOp' # "mount" /\ timeLeft' < timeLeft)
          => (isInitialized /\ timeLeft > 0) ]_vars

\* The clock has run down to zero on an initialized session.
C34_Witness ==
  /\ lastOp = "tick"
  /\ timeLeft = 0
  /\ isInitialized
  /\ levelConfig.timeLimitSeconds > 0

\* C35: the level being played never exceeds MAX_LEVELS: whatever the
\* sequence of level selections, wins, next-level, retry and home actions,
\* currentLevel <= MAX_LEVELS whenever the game state is PLAYING.
C35_PlayedLevelWithinMap == gameState = "PLAYING" => currentLevel <= MAX_LEVELS

\* C36: a locked level is never played: selecting a level greater than
\* progress.unlockedLevel leaves currentLevel and the game state unchanged,
\* and currentLevel <= progress.unlockedLevel whenever the game state is
\* PLAYING.
C36_LockedLevelNeverPlayed ==
  [][/\ lastOp' = "locked" => UNCHANGED <<levelConfig, gameState>>
     /\ gameState' = "PLAYING"
          => levelConfig'.levelNumber <= progress'.unlockedLevel
     /\ (gameState \in {"MENU", "MAP"} /\ gameState' = "PLAYING")
          => levelConfig'.levelNumber <= progress.unlockedLevel ]_vars

\* On the map with levels unlocked, a locked level was selected and turned
\* away.
C36_Witness ==
  /\ lastOp = "locked"
  /\ gameState = "MAP"
  /\ progress.unlockedLevel > 1
  /\ progress.unlockedLevel < MAX_LEVELS

\* The levels a star value can be stored for.
PlayableLevels == 1..(MAX_LEVELS + MaxBeyond)

\* C37: player progress is monotone: progress.unlockedLevel and the stored
\* star value of every level never decrease; a loss leaves progress
\* unchanged, and a win on level L stores max(previous stars, new stars)
\* for L and unlocks at least level L + 1.
C37_ProgressMonotone ==
  [][/\ progress'.unlockedLevel >= progress.unlockedLevel
     /\ \A l \in PlayableLevels : StarsOf(progress', l) >= StarsOf(progress, l)
     /\ gameState' = "LOST" => progress' = progress
     /\ (gameState = "PLAYING" /\ gameState' = "WON")
          => LET result == calls'[Len(calls')]
             IN  /\ StarsOf(progress', currentLevel)
                      = Max({StarsOf(progress, currentLevel), result.stars})
                 /\ progress'.unlockedLevel >= currentLevel + 1
                 /\ \A l \in PlayableLevels \ {currentLevel} :
                      StarsOf(progress', l) = StarsOf(progress, l) ]_vars

\* A level won with three stars before has been won again with fewer, and
\* the three stars are kept.
C37_Witness ==
  /\ gameState = "WON"
  /\ calls # <<>>
  /\ calls[Len(calls)].stars < StarsOf(progress, currentLevel)
  /\ progress.unlockedLevel > currentLevel + 1

\* C38: every win result carries a star value in {1, 2, 3} and every loss
\* result carries the star value 0; the application enters WON only on a
\* result with won = true and LOST only on a result with won = false.
C38_ResultsWellFormed ==
  [][/\ \A i \in DOMAIN calls' :
          IF calls'[i].won THEN calls'[i].stars \in {1, 2, 3}
          ELSE calls'[i].stars = 0
     /\ (gameState # "WON" /\ gameState' = "WON")
          => (Len(calls') = Len(calls) + 1 /\ calls'[Len(calls')].won)
     /\ (gameState # "LOST" /\ gameState' = "LOST")
          => (Len(calls') = Len(calls) + 1 /\ ~calls'[Len(calls')].won) ]_vars

\* A level was won in its last second, with one star.
C38_Witness ==
  /\ gameState = "WON"
  /\ calls = << [won |-> TRUE, stars |-> 1] >>
  /\ timeLeft = 1

\* C39: in every reachable state isProcessingMatch is true iff matchedType
\* is non-null, and while it is true the tray contains at least three items
\* of matchedType.
C39_ProcessingIffMatchedType ==
  /\ isProcessingMatch <=> (matchedType # NoType)
  /\ isProcessingMatch => TypeCount(tray, matchedType) >= 3

\* A triplet is being resolved in a tray that holds other items as well.
C39_Witness ==
  /\ gameState = "PLAYING"
  /\ isProcessingMatch
  /\ TypeCount(tray, matchedType) = 3
  /\ Len(tray) > 3
====
